---- MODULE Spec2Model ----
(***************************************************************************)
(* Model of notebooks/examples/04 Multiclass Selection Example.ipynb:      *)
(* the cells from the train/test split (line 171) through the one-vs-rest  *)
(* feature selection loop (lines 211-217) to the column filtering (lines   *)
(* 242-243).                                                               *)
(*                                                                         *)
(* A pandas Series is a record [index, values] of two sequences aligned by *)
(* position; a DataFrame is a record [index, columns] (the cell values of  *)
(* the feature table are read only by select_features, whose verdict is    *)
(* opaque, so they are not represented).  Sample ids are 0, 1, 2, ...;     *)
(* class labels are 1..NumLabels; feature columns are named by the         *)
(* negative integers -1..-NumColumns so that a column name never coincides *)
(* with a sample id or a label.                                            *)
(***************************************************************************)
EXTENDS Integers, Sequences, FiniteSets, TLC

\* ---- bounds of the model ----
MaxRows == 4        \* longest dataset / label vector enumerated
NumLabels == 2      \* class labels 1..NumLabels (6 in the HAR data)
NumColumns == 2     \* extracted feature columns
IdLimit == 3        \* "only use the first 500 ids", scaled down

\* test_size=.2 is one fifth
TestSizeDen == 5

Labels == 1..NumLabels
Columns == {0 - c : c \in 1..NumColumns}
\* exceptions select_features can raise
SelectErrors == {"AssertionError", "ValueError"}

NoSeries == [index |-> <<>>, values |-> <<>>]
NoFrame == [index |-> <<>>, columns |-> {}]
NoLabel == 0

VARIABLES
    y,                  \* load_har_classes(): the full label vector
    X,                  \* extract_features(df[df["id"] < 500], ...): one row per id of df below the limit
    X_train, X_test, y_train, y_test,
    relevant_features,
    todo,               \* labels of y.unique() the for loop has not yet taken
    label,
    y_train_binary,
    X_train_filtered,
    X_test_filtered,
    printed,            \* lines written by print()
    selected,           \* select_features as a deterministic function: the (target, outcome) pairs seen
    calls,              \* the select_features invocations made, in order
    pc,
    err                 \* the exception that ended the run, "" when none

inputs == <<y, X>>
splits == <<X_train, X_test, y_train, y_test>>
temps == <<label, y_train_binary, X_train_filtered>>
vars == <<y, X, X_train, X_test, y_train, y_test, relevant_features, todo,
          label, y_train_binary, X_train_filtered, X_test_filtered, printed,
          selected, calls, pc, err>>

\* ---- pandas / sklearn helpers ----
Min(a, b) == IF a < b THEN a ELSE b

Range(s) == {s[i] : i \in DOMAIN s}

\* RangeIndex of n rows: 0 .. n-1
RangeIndex(n) == [i \in 1..n |-> i - 1]

\* ser[:k]
SliceTo(ser, k) ==
    [index |-> SubSeq(ser.index, 1, Min(k, Len(ser.index))),
     values |-> SubSeq(ser.values, 1, Min(k, Len(ser.values)))]

\* rows of a Series / DataFrame at the positions pos (1-based), in that order
TakeSeries(ser, pos) ==
    [index |-> [i \in 1..Len(pos) |-> ser.index[pos[i]]],
     values |-> [i \in 1..Len(pos) |-> ser.values[pos[i]]]]

TakeFrame(frame, pos) ==
    [index |-> [i \in 1..Len(pos) |-> frame.index[pos[i]]],
     columns |-> frame.columns]

\* Series.unique(): distinct values in order of first appearance
RECURSIVE uniqueValues(_)
uniqueValues_nodedupe(vals) == vals
uniqueValues(vals) ==
    IF vals = <<>> THEN <<>>
    ELSE LET front == uniqueValues(SubSeq(vals, 1, Len(vals) - 1))
             last == vals[Len(vals)]
         IN IF last \in Range(front) THEN front ELSE Append(front, last)

\* ser == v, elementwise
SeriesEq_negated(ser, v) ==
    [index |-> ser.index,
     values |-> [i \in 1..Len(ser.values) |-> ser.values[i] # v]]
SeriesEq(ser, v) ==
    [index |-> ser.index,
     values |-> [i \in 1..Len(ser.values) |-> ser.values[i] = v]]

\* number of test rows train_test_split takes out of n: ceil(n / 5)
NumTest(n) == (n + TestSizeDen - 1) \div TestSizeDen

\* the positions of S in ascending order
Ascending(S) ==
    CHOOSE q \in [1..Cardinality(S) -> S] :
        \A i, j \in 1..Cardinality(S) : i < j => q[i] < q[j]

\* the ways ShuffleSplit can pick k of the positions 1..n for the test set.
\* The order in which the shuffle leaves the rows is not represented: both
\* arrays are taken at the same positions and nothing downstream reads the
\* row order, so each part keeps its rows in ascending position.
TestChoices(n, k) == {S \in SUBSET (1..n) : Cardinality(S) = k}

\* a.union(b) of line 217, preceded by faulty variants of it (&, ^, plain
\* assignment, the row index in place of the columns) that the properties
\* must tell apart from it
Union_intersection(acc, cols) == acc \cap cols
Union_symdiff(acc, cols) == (acc \ cols) \cup (cols \ acc)
Union_assign(acc, cols) == cols
Union_index(acc, frame) == acc \cup Range(frame.index)
SetUnion(acc, cols) == acc \cup cols

\* set(X_train_filtered.columns)
ColumnSet(frame) == frame.columns

Accumulate(acc, frame) == SetUnion(acc, ColumnSet(frame))

\* ---- initial state: the data as loaded and the features as extracted ----
Init ==
    /\ \E n \in 0..MaxRows : \E v \in [1..n -> Labels] :
           y = [index |-> RangeIndex(n), values |-> v]
    /\ \E n \in 0..Min(IdLimit, MaxRows) : X = [index |-> RangeIndex(n), columns |-> Columns]
    /\ X_train = NoFrame /\ X_test = NoFrame
    /\ y_train = NoSeries /\ y_test = NoSeries
    /\ relevant_features = {}
    /\ todo = <<>>
    /\ label = NoLabel
    /\ y_train_binary = NoSeries
    /\ X_train_filtered = NoFrame
    /\ X_test_filtered = NoFrame
    /\ printed = <<>>
    /\ selected = {}
    /\ calls = <<>>
    /\ pc = "split"
    /\ err = ""

\* ---- line 171: X_train, X_test, y_train, y_test = train_test_split(X, y[:500], test_size=.2) ----
\* check_consistent_length / _validate_shuffle_split reject arrays of unequal
\* length and a split that leaves the train set empty
SplitRejects(frame, ser) ==
    \/ Len(frame.index) # Len(ser.index)
    \/ Len(frame.index) - NumTest(Len(frame.index)) = 0

SplitRaises ==
    /\ pc = "split"
    /\ SplitRejects(X, SliceTo(y, IdLimit))
    /\ pc' = "error"
    /\ err' = "ValueError"
    /\ UNCHANGED <<inputs, splits, relevant_features, todo, temps,
                   X_test_filtered, printed, selected, calls>>

SplitReturns ==
    /\ pc = "split"
    /\ ~SplitRejects(X, SliceTo(y, IdLimit))
    /\ LET n == Len(X.index)
       IN \E S \in TestChoices(n, NumTest(n)) :
              LET test == Ascending(S)
                  train == Ascending((1..n) \ S)
              IN /\ X_train' = TakeFrame(X, train)
                 /\ X_test' = TakeFrame(X, test)
                 /\ y_train' = TakeSeries(SliceTo(y, IdLimit), train)
                 /\ y_test' = TakeSeries(SliceTo(y, IdLimit), test)
    /\ pc' = "init"
    /\ UNCHANGED <<inputs, relevant_features, todo, temps,
                   X_test_filtered, printed, selected, calls, err>>

\* ---- line 211: relevant_features = set() ----
EmptySet ==
    /\ pc = "init"
    /\ relevant_features' = {}
    /\ pc' = "unique"
    /\ UNCHANGED <<inputs, splits, todo, temps, X_test_filtered, printed,
                   selected, calls, err>>

\* ---- line 213: for label in y.unique() ----
ForEnter ==
    /\ pc = "unique"
    /\ todo' = uniqueValues(y.values)
    /\ pc' = "for"
    /\ UNCHANGED <<inputs, splits, relevant_features, temps, X_test_filtered,
                   printed, selected, calls, err>>

ForNext ==
    /\ pc = "for"
    /\ todo # <<>>
    /\ label' = Head(todo)
    /\ todo' = Tail(todo)
    /\ pc' = "binary"
    /\ UNCHANGED <<inputs, splits, relevant_features, y_train_binary,
                   X_train_filtered, X_test_filtered, printed, selected, calls, err>>

ForExit ==
    /\ pc = "for"
    /\ todo = <<>>
    /\ pc' = "filter"
    /\ UNCHANGED <<inputs, splits, relevant_features, todo, temps,
                   X_test_filtered, printed, selected, calls, err>>

\* ---- line 214: y_train_binary = y_train == label ----
BinaryTarget ==
    /\ pc = "binary"
    /\ y_train_binary' = SeriesEq(y_train, label)
    /\ pc' = "select"
    /\ UNCHANGED <<inputs, splits, relevant_features, todo, label,
                   X_train_filtered, X_test_filtered, printed, selected, calls, err>>

\* ---- line 215: X_train_filtered = select_features(X_train, y_train_binary) ----
\* What select_features may do with a target: return the table restricted to
\* some set of its columns, or raise.  It is deterministic: a target it has
\* already been given gets the outcome it got before.
AllOutcomes(frame) ==
    {[raises |-> "", columns |-> c] : c \in SUBSET frame.columns}
        \cup {[raises |-> e, columns |-> {}] : e \in SelectErrors}

Outcomes(frame, target) ==
    IF \E s \in selected : s.target = target
    THEN {s.outcome : s \in {t \in selected : t.target = target}}
    ELSE AllOutcomes(frame)

Invoke(o) ==
    /\ calls' = Append(calls, [label |-> label, target |-> y_train_binary])
    /\ selected' = selected \cup {[target |-> y_train_binary, outcome |-> o]}

SelectReturns_inplace ==
    /\ pc = "select"
    /\ \E o \in Outcomes(X_train, y_train_binary) :
           /\ o.raises = ""
           /\ Invoke(o)
           /\ X_train' = [index |-> X_train.index, columns |-> o.columns]
           /\ X_train_filtered' = X_train'
    /\ pc' = "print"
    /\ UNCHANGED <<inputs, X_test, y_train, y_test, relevant_features, todo, label,
                   y_train_binary, X_test_filtered, printed, err>>

SelectReturns ==
    /\ pc = "select"
    /\ \E o \in Outcomes(X_train, y_train_binary) :
           /\ o.raises = ""
           /\ Invoke(o)
           /\ X_train_filtered' = [index |-> X_train.index, columns |-> o.columns]
    /\ pc' = "print"
    /\ UNCHANGED <<inputs, splits, relevant_features, todo, label,
                   y_train_binary, X_test_filtered, printed, err>>

\* no try/except around the call: the exception ends the cell
SelectRaises_swallowed ==
    /\ pc = "select"
    /\ \E o \in Outcomes(X_train, y_train_binary) :
           /\ o.raises # ""
           /\ Invoke(o)
    /\ pc' = "for"
    /\ UNCHANGED <<inputs, splits, relevant_features, todo, temps,
                   X_test_filtered, printed, err>>

SelectRaises ==
    /\ pc = "select"
    /\ \E o \in Outcomes(X_train, y_train_binary) :
           /\ o.raises # ""
           /\ Invoke(o)
           /\ err' = o.raises
    /\ pc' = "error"
    /\ UNCHANGED <<inputs, splits, relevant_features, todo, temps,
                   X_test_filtered, printed>>

\* ---- line 216: print("Number of relevant features for class {}: {}/{}".format(...)) ----
Report ==
    /\ pc = "print"
    /\ printed' = Append(printed, [label |-> label,
                                   count |-> Cardinality(X_train_filtered.columns),
                                   total |-> Cardinality(X_train.columns)])
    /\ pc' = "union"
    /\ UNCHANGED <<inputs, splits, relevant_features, todo, temps,
                   X_test_filtered, selected, calls, err>>

\* ---- line 217: relevant_features = relevant_features.union(set(X_train_filtered.columns)) ----
UnionStep ==
    /\ pc = "union"
    /\ relevant_features' = Accumulate(relevant_features, X_train_filtered)
    /\ pc' = "for"
    /\ UNCHANGED <<inputs, splits, todo, temps, X_test_filtered, printed,
                   selected, calls, err>>

\* ---- lines 242-243: X_train[list(relevant_features)], X_test[list(relevant_features)] ----
\* indexing a DataFrame by a list with a name that is no column raises KeyError
Filter ==
    /\ pc = "filter"
    /\ IF relevant_features \subseteq X_train.columns
       THEN /\ X_train_filtered' = [index |-> X_train.index, columns |-> relevant_features]
            /\ X_test_filtered' = [index |-> X_test.index, columns |-> relevant_features]
            /\ pc' = "done"
            /\ err' = err
       ELSE /\ pc' = "error"
            /\ err' = "KeyError"
            /\ UNCHANGED <<X_train_filtered, X_test_filtered>>
    /\ UNCHANGED <<inputs, splits, relevant_features, todo, label, y_train_binary,
                   printed, selected, calls>>

Next ==
    \/ SplitRaises
    \/ SplitReturns
    \/ EmptySet
    \/ ForEnter
    \/ ForNext
    \/ ForExit
    \/ BinaryTarget
    \/ SelectReturns
    \/ SelectRaises
    \/ Report
    \/ UnionStep
    \/ Filter

Spec == Init /\ [][Next]_vars

\* ---- vocabulary of the properties ----
\* the distinct values present in the Label Vector y
DistinctLabels == Range(y.values)

\* the label the Label Vector holds for sample id i
LabelOf(i) == y.values[CHOOSE k \in DOMAIN y.index : y.index[k] = i]

\* the loop has run to its end and its result is the returned union
Returned == pc \in {"filter", "done"}

\* the Binary Target Vector b_L over the rows of the feature table given to
\* select_features: b_L[i] = (y[i] = L)
BinaryTargetOf(L) ==
    [index |-> X_train.index,
     values |-> [k \in 1..Len(X_train.index) |-> LabelOf(X_train.index[k]) = L]]

\* a target that is all-true or all-false
Degenerate(target) ==
    \/ \A k \in DOMAIN target.values : target.values[k]
    \/ \A k \in DOMAIN target.values : ~target.values[k]

\* the Selected Feature Set select_features returned for a target
SelectedSet(target) ==
    UNION {s.outcome.columns : s \in {t \in selected : t.target = target}}

RaisedFor(target) ==
    {s.outcome.raises : s \in {t \in selected : t.target = target}} \ {""}

\* the loop of lines 211-217 run over the labels in the order given
RECURSIVE LoopOver(_)
LoopOver(order) ==
    IF order = <<>> THEN {}
    ELSE Accumulate(LoopOver(SubSeq(order, 1, Len(order) - 1)),
                    [index |-> X_train.index,
                     columns |-> SelectedSet(SeriesEq(y_train, order[Len(order)]))])

\* the orders in which the labels of a set can be processed
Orderings(S) ==
    {q \in [1..Cardinality(S) -> S] :
        \A i, j \in 1..Cardinality(S) : q[i] = q[j] => i = j}

\* ---- C1 ----
\* C1: when the loop ends without an error, relevant_features is exactly the
\* union, over the distinct labels L of y, of the Selected Feature Set that
\* select_features returned for the binary target of L.
C1_ReturnsUnion ==
    Returned =>
        relevant_features = UNION {SelectedSet(BinaryTargetOf(L)) : L \in DistinctLabels}

\* two labels with different non-empty selections, both in the result
C1_Witness ==
    /\ pc = "done"
    /\ \E L1, L2 \in DistinctLabels :
           /\ SelectedSet(BinaryTargetOf(L1)) # {}
           /\ SelectedSet(BinaryTargetOf(L2)) # {}
           /\ SelectedSet(BinaryTargetOf(L1)) \cap SelectedSet(BinaryTargetOf(L2)) = {}
           /\ relevant_features =
                  SelectedSet(BinaryTargetOf(L1)) \cup SelectedSet(BinaryTargetOf(L2))

\* ---- C2 ----
\* C2: relevant_features is a subset of the feature table's columns in every
\* state (initially, after every label, at the end), and so are the columns
\* of the tables filtered by it.
C2_SubsetOfColumns ==
    /\ relevant_features \subseteq X.columns
    /\ pc = "done" => /\ X_train_filtered.columns \subseteq X.columns
                      /\ X_test_filtered.columns \subseteq X.columns

C2_Witness ==
    /\ pc = "done"
    /\ relevant_features # {}
    /\ relevant_features # X.columns
    /\ X_train_filtered.columns = relevant_features

\* ---- C3 ----
\* C3: the accumulator is empty when the loop starts and no step ever removes
\* a feature from it.
C3_Monotone ==
    /\ [](pc = "unique" => relevant_features = {})
    /\ [][relevant_features \subseteq relevant_features']_vars

\* two labels processed, the second of which found the accumulator non-empty
\* and added to it
C3_Witness ==
    /\ pc = "for"
    /\ Len(printed) = 2
    /\ printed[1].count > 0
    /\ Cardinality(relevant_features) > printed[1].count

\* ---- C4 ----
\* C4: with select_features deterministic, running the loop over the distinct
\* labels in any order gives the relevant_features the run ended with.
C4_OrderIndependent ==
    pc = "done" =>
        \A order \in Orderings(DistinctLabels) : LoopOver(order) = relevant_features

C4_Witness ==
    /\ pc = "done"
    /\ Cardinality(DistinctLabels) >= 2
    /\ \E L1, L2 \in DistinctLabels :
           /\ SelectedSet(BinaryTargetOf(L1)) \ SelectedSet(BinaryTargetOf(L2)) # {}
           /\ SelectedSet(BinaryTargetOf(L2)) \ SelectedSet(BinaryTargetOf(L1)) # {}

\* ---- C5 ----
\* C5: the target given to select_features for label L has exactly the rows of
\* the feature table, and is true at a row exactly when y at that sample id is L.
C5_BinaryTargetCorrect ==
    pc \in {"select", "print", "union"} =>
        /\ y_train_binary.index = X_train.index
        /\ Len(y_train_binary.values) = Len(X_train.index)
        /\ \A k \in 1..Len(X_train.index) :
               y_train_binary.values[k] = (LabelOf(X_train.index[k]) = label)

\* a target with a true row and a false row
C5_Witness ==
    /\ pc = "select"
    /\ \E j, k \in DOMAIN y_train_binary.values :
           y_train_binary.values[j] /\ ~y_train_binary.values[k]

\* ---- C6 ----
\* C6: select_features is never invoked on a degenerate (all-true or
\* all-false) target: the class is rejected or skipped before the call.
C6_DegenerateNotInvoked ==
    \A k \in DOMAIN calls : ~Degenerate(calls[k].target)

\* ---- C7 ----
\* C7: when the feature table's rows and the Label Vector's sample ids
\* disagree, the run fails and no union is returned.
C7_MismatchFails ==
    Range(X.index) # Range(y.index) => ~Returned

\* ---- C8 ----
\* C8: an exception raised by select_features ends the run at once with that
\* same exception; the failing call is not repeated, nothing runs after the
\* error, and the loop's end is never reached.
C8_UpstreamFailureAborts ==
    /\ [][(pc = "select" /\ RaisedFor(y_train_binary)' # {}) =>
              /\ pc' = "error"
              /\ {err'} = RaisedFor(y_train_binary)'
              /\ UNCHANGED <<relevant_features, todo>>]_vars
    /\ [][pc = "error" => UNCHANGED vars]_vars
    /\ [](\A j, k \in DOMAIN calls :
              (j # k /\ calls[j].target = calls[k].target) => RaisedFor(calls[j].target) = {})

\* the first call raised, and a label is left that is never processed
C8_Witness ==
    /\ pc = "error"
    /\ Len(calls) = 1
    /\ err \in SelectErrors
    /\ todo # <<>>

\* ---- C9 ----
\* C9: from the first statement of the loop on, no step changes the label
\* vector, the feature table or the split tables and label vectors; a print
\* leaves the accumulator alone; and the accumulator only ever changes to its
\* union with the columns select_features returned.
C9_NoSideEffects ==
    /\ [][pc # "split" => UNCHANGED <<y, X, X_train, X_test, y_train, y_test>>]_vars
    /\ [][printed' # printed => relevant_features' = relevant_features]_vars
    /\ [][relevant_features' # relevant_features =>
              relevant_features' = relevant_features \cup X_train_filtered.columns]_vars

\* a finished run whose selection left a column out, the table still whole
C9_Witness ==
    /\ pc = "done"
    /\ printed # <<>>
    /\ relevant_features # {}
    /\ X_train.columns = Columns
    /\ relevant_features # Columns

\* ---- C10 ----
\* C10: select_features is never invoked twice for one label nor for a value
\* that is not in y; the loop ends (every iteration shortens the list of
\* labels still to take, and no state before the end of the run is stuck);
\* and a run without error has invoked it once for each distinct label of y
\* and for nothing else.
C10_SinglePass ==
    /\ [](\A j, k \in DOMAIN calls : calls[j].label = calls[k].label => j = k)
    /\ [](\A k \in DOMAIN calls : calls[k].label \in DistinctLabels)
    /\ [](Returned => /\ todo = <<>>
                      /\ {calls[k].label : k \in DOMAIN calls} = DistinctLabels
                      /\ Len(calls) = Cardinality(DistinctLabels))
    /\ [][pc = "for" => (pc' = "filter" \/ Len(todo') < Len(todo))]_vars
    /\ [][pc # "for" => todo' = todo \/ pc = "unique"]_vars
    /\ [](pc \notin {"done", "error"} => ENABLED Next)

\* a finished run over a label vector that repeats a label
C10_Witness ==
    /\ pc = "done"
    /\ Len(calls) >= 2
    /\ Len(y.values) > Cardinality(DistinctLabels)

====
